---- MODULE Spec2Model ----
(***************************************************************************)
(* Model of the balance engine of hsuanhauliu/split                        *)
(* (src/split/src/components/MainPage.jsx, calculateBalances, l.109-194).  *)
(*                                                                         *)
(* calculateBalances(expenses, participants) builds a ledger keyed by      *)
(* participant name (debtsMatrix), folds every transaction into it         *)
(* (expenses.forEach) and then nets every roster pair i < j into the list  *)
(* finalDebts.  The model runs the function as a state machine: one step   *)
(* for the guard and the ledger construction, one step per forEach         *)
(* iteration, one step per iteration of the inner netting loop.            *)
(*                                                                         *)
(* JavaScript Numbers are IEEE-754 binary floating point values.  The      *)
(* model keeps the rounding: a Number is an integer count of quanta        *)
(* 2^-FracBits, and every arithmetic result is rounded to Prec significant *)
(* bits, ties to even, as binary64 does with 53 bits.                      *)
(***************************************************************************)
EXTENDS Integers, Sequences, FiniteSets, TLC

\* ------------------------------------------------------------------ bounds
\* Prec = 2*HalfPrec + 1 significant bits (binary64: 2*26 + 1 = 53).
HalfPrec == 3
\* A quantum is 2^-FracBits.
FracBits == 10
\* Longest transaction list drawn by Init.
MaxTx == 3
\* Longest transaction list drawn by InitLoose and InitCalls.
MaxLooseTx == 2

\* ------------------------------------------------- Number (IEEE-754 model)
Prec == 2 * HalfPrec + 1
Scale == 2 ^ FracBits

Abs(x) == IF x < 0 THEN -x ELSE x

\* num/den >= 0 rounded to the nearest integer, ties to the even one.
RoundHalfEven(num, den) ==
    LET f == num \div den
        r == num - f * den
    IN  IF 2 * r < den THEN f
        ELSE IF 2 * r > den THEN f + 1
        ELSE IF f % 2 = 0 THEN f ELSE f + 1

\* The unit in the last place of num/den >= 0: the least power of two u
\* (in quanta) with num/den < 2^Prec * u.
RECURSIVE UlpOf(_, _, _)
UlpOf(num, den, u) ==
    IF num < den * (2 ^ Prec) * u THEN u ELSE UlpOf(num, den, 2 * u)

\* The Number nearest to the rational num/den (in quanta), den # 0.
RndQ(num, den) ==
    LET n == IF den < 0 THEN -num ELSE num
        d == Abs(den)
        a == Abs(n)
        u == UlpOf(a, d, 1)
        m == RoundHalfEven(a, d * u) * u
    IN  IF n < 0 THEN -m ELSE m

FAdd(a, b) == RndQ(a + b, 1)
FSub(a, b) == RndQ(a - b, 1)
FMul(a, b) == RndQ(a * b, Scale)
FDiv(a, b) == RndQ(a * Scale, b)

\* The Number an integer (an array length, the literal 100) converts to.
FromInt(n) == RndQ(n * Scale, 1)
\* The Number a decimal literal n/d denotes.
Dec(n, d) == RndQ(n * Scale, d)

\* The literal 0.01 of the netting loop.
Threshold == Dec(1, 100)

\* parseFloat applied to a Number: ToString followed by StringToNumber gives
\* back every finite Number.
parseFloat(v) == v

\* ------------------------------------------------------------ input records
\* The participant names the inputs are drawn from.
Names == {"Alice", "Bob", "Carol"}

\* The fields of a transaction record that calculateBalances destructures;
\* a record's "has" lists the ones it carries (the others are undefined).
AllFields == {"amount", "paidBy", "splitBetween", "splitValues", "itemized"}

\* One key/value entry of a splitValues or itemized object, in key order.
Entry(n, v) == [name |-> n, value |-> v]

Tx(pay, amt, payer, method, between, values, items, fields) ==
    [isPayment |-> pay, amount |-> amt, paidBy |-> payer,
     splitMethod |-> method, splitBetween |-> between,
     splitValues |-> values, itemized |-> items, has |-> fields]

RECURSIVE EntryNameSeq(_)
EntryNameSeq(s) ==
    IF s = <<>> THEN <<>> ELSE <<Head(s).name>> \o EntryNameSeq(Tail(s))

\* The records the expense form stores, per split method.
EvenlyExpense(amt, payer, between) ==
    Tx(FALSE, amt, payer, "evenly", between, <<>>, <<>>,
       {"amount", "paidBy", "splitBetween"})
ValuesExpense(method, amt, payer, values) ==
    Tx(FALSE, amt, payer, method, <<>>, values, <<>>,
       {"amount", "paidBy", "splitValues"})
ItemExpense(amt, payer, items) ==
    Tx(FALSE, amt, payer, "item", EntryNameSeq(items), <<>>, items,
       {"amount", "paidBy", "splitBetween", "itemized"})
\* The record the payment form stores.
Payment(amt, from, to) ==
    Tx(TRUE, amt, from, "evenly", <<to>>, <<>>, <<>>,
       {"amount", "paidBy", "splitBetween"})

\* ------------------------------------------------------- calculateBalances
Range(s) == {s[x] : x \in DOMAIN s}

\* The value of key n in an object given as its entries.
ValueOf(entries, n) ==
    entries[CHOOSE x \in DOMAIN entries : entries[x].name = n].value

\* l.114-120: every cell of the name-keyed ledger starts at 0.
NewMatrix(parts) ==
    [p1 \in Range(parts) |-> [p2 \in Range(parts) |-> 0]]

\* TooFew for a guard that only refuses an empty roster.
TooFew_OnlyEmpty(given, parts) == ~given \/ Len(parts) < 1

\* l.110: if (!participants || participants.length < 2); given is FALSE for
\* a call without a roster (null or undefined).
TooFew(given, parts) == ~given \/ Len(parts) < 2

\* Skipped that only looks at the amount.
Skipped_AmountOnly(e) == "amount" \notin e.has \/ e.amount = 0

\* l.124: if (!amount || !paidBy) return;
Skipped(e) ==
    \/ "amount" \notin e.has
    \/ e.amount = 0
    \/ "paidBy" \notin e.has
    \/ e.paidBy = ""

NoShares == [n \in {} |-> 0]

\* l.155: Object.values(itemized).reduce((sum, val) => sum + val, 0)
RECURSIVE SumValues(_, _)
SumValues(entries, sum) ==
    IF entries = <<>> THEN sum
    ELSE SumValues(Tail(entries), FAdd(sum, Head(entries).value))

\* EvenlyShare that divides among the people other than the payer.
EvenlyShare_AmongOthers(amount, splitBetween) ==
    FDiv(amount, FromInt(Len(splitBetween) - 1))

\* EvenlyShare that forgets the division.
EvenlyShare_Undivided(amount, splitBetween) == amount

\* l.135: const share = amount / splitBetween.length
EvenlyShare(amount, splitBetween) == FDiv(amount, FromInt(Len(splitBetween)))

\* AmountShare that reads the stored value as a percentage of the amount.
AmountShare_OfAmount(amount, shareAmount) ==
    FMul(amount, FDiv(shareAmount, FromInt(100)))

\* l.143: shares[personName] = parseFloat(shareAmount)
AmountShare(amount, shareAmount) == parseFloat(shareAmount)

\* PercentageShare scaled so that the stored percentages count as parts of
\* 80 instead of 100.
PercentageShare_Of80(amount, percentage) ==
    FMul(amount, FDiv(parseFloat(percentage), FromInt(80)))

\* l.149: const share = amount * (parseFloat(percentage) / 100)
PercentageShare(amount, percentage) ==
    FMul(amount, FDiv(parseFloat(percentage), FromInt(100)))

\* ItemShare that charges every named person the whole of the extras.
ItemShare_FullExtras(itemCost, baseTotal, extras) == FAdd(itemCost, extras)

\* ItemShare that leaves the extras with the payer.
ItemShare_NoExtras(itemCost, baseTotal, extras) == itemCost

\* l.158-159: the item cost plus its proportion of the extras.
ItemShare(itemCost, baseTotal, extras) ==
    LET proportion == IF baseTotal > 0 THEN FDiv(itemCost, baseTotal) ELSE 0
    IN  FAdd(itemCost, FMul(extras, proportion))

\* Shares that splits evenly over splitBetween whatever the method is.
Shares_AlwaysEvenly(e) ==
    IF "splitBetween" \notin e.has \/ Len(e.splitBetween) = 0
    THEN NoShares
    ELSE [n \in Range(e.splitBetween) |->
            EvenlyShare(e.amount, e.splitBetween)]

\* l.131-164: the shares object of one expense, by split method.
Shares(e) ==
    CASE e.splitMethod = "evenly" ->
            IF "splitBetween" \notin e.has \/ Len(e.splitBetween) = 0
            THEN NoShares
            ELSE [n \in Range(e.splitBetween) |->
                    EvenlyShare(e.amount, e.splitBetween)]
      [] e.splitMethod = "amount" ->
            IF "splitValues" \notin e.has THEN NoShares
            ELSE [n \in Range(EntryNameSeq(e.splitValues)) |->
                    AmountShare(e.amount, ValueOf(e.splitValues, n))]
      [] e.splitMethod = "percentage" ->
            IF "splitValues" \notin e.has THEN NoShares
            ELSE [n \in Range(EntryNameSeq(e.splitValues)) |->
                    PercentageShare(e.amount, ValueOf(e.splitValues, n))]
      [] e.splitMethod = "item" ->
            IF "itemized" \notin e.has THEN NoShares
            ELSE LET baseTotal == SumValues(e.itemized, 0)
                     extras == FSub(e.amount, baseTotal)
                 IN  [n \in Range(EntryNameSeq(e.itemized)) |->
                        ItemShare(ValueOf(e.itemized, n), baseTotal, extras)]
      [] OTHER -> NoShares

Threw == [threw |-> TRUE, m |-> <<>>]
Went(m) == [threw |-> FALSE, m |-> m]

\* PaymentBody that books the payment as a further debt of the payer.
PaymentBody_Added(m, e) ==
    IF "splitBetween" \notin e.has \/ e.paidBy \notin DOMAIN m THEN Threw
    ELSE IF Len(e.splitBetween) = 0 \/ e.splitBetween[1] \notin DOMAIN m
         THEN Went(m)
         ELSE Went([m EXCEPT ![e.paidBy][e.splitBetween[1]] =
                                 FAdd(@, e.amount)])

\* PaymentBody that also books the payment in the receiver's row.
PaymentBody_Mirrored(m, e) ==
    IF "splitBetween" \notin e.has \/ e.paidBy \notin DOMAIN m THEN Threw
    ELSE IF Len(e.splitBetween) = 0 \/ e.splitBetween[1] \notin DOMAIN m
         THEN Went(m)
         ELSE LET m1 == [m EXCEPT ![e.paidBy][e.splitBetween[1]] =
                                     FSub(@, e.amount)]
              IN  Went([m1 EXCEPT ![e.splitBetween[1]][e.paidBy] =
                                     FAdd(@, e.amount)])

\* l.126-129: a payment.  debtsMatrix[payer] is undefined for a payer
\* outside the roster and splitBetween[0] needs an array: both raise a
\* TypeError.  A receiver outside the roster only adds a key the netting
\* loop never reads.
PaymentBody(m, e) ==
    IF "splitBetween" \notin e.has \/ e.paidBy \notin DOMAIN m THEN Threw
    ELSE IF Len(e.splitBetween) = 0 \/ e.splitBetween[1] \notin DOMAIN m
         THEN Went(m)
         ELSE Went([m EXCEPT ![e.paidBy][e.splitBetween[1]] =
                                 FSub(@, e.amount)])

\* ExpenseBody without the test borrower !== paidBy.
ExpenseBody_NoSelfTest(m, e) ==
    LET shares == Shares(e)
    IN  IF \E b \in DOMAIN shares : b \notin DOMAIN m THEN Threw
        ELSE IF e.paidBy \notin DOMAIN m THEN Went(m)
        ELSE Went([b \in DOMAIN m |->
                     [c \in DOMAIN m |->
                        IF b \in DOMAIN shares /\ c = e.paidBy
                        THEN FAdd(m[b][c], shares[b])
                        ELSE m[b][c]]])

\* l.166-170: every share of a borrower other than the payer is added to
\* debtsMatrix[borrower][paidBy]; a borrower outside the roster raises a
\* TypeError, a payer outside the roster only adds keys never read.
ExpenseBody(m, e) ==
    LET shares == Shares(e)
        borrowers == {b \in DOMAIN shares : b # e.paidBy}
    IN  IF \E b \in borrowers : b \notin DOMAIN m THEN Threw
        ELSE IF e.paidBy \notin DOMAIN m THEN Went(m)
        ELSE Went([b \in DOMAIN m |->
                     [c \in DOMAIN m |->
                        IF b \in borrowers /\ c = e.paidBy
                        THEN FAdd(m[b][c], shares[b])
                        ELSE m[b][c]]])

\* ForEachBody that books every expense as paid by one and the same
\* participant.
ForEachBody_OnePayer(m, e) ==
    IF Skipped(e) THEN Went(m)
    ELSE IF e.isPayment THEN PaymentBody(m, e)
    ELSE ExpenseBody(m, [e EXCEPT !.paidBy = CHOOSE n \in DOMAIN m : TRUE])

\* l.122-172: the body of expenses.forEach.
ForEachBody(m, e) ==
    IF Skipped(e) THEN Went(m)
    ELSE IF e.isPayment THEN PaymentBody(m, e)
    ELSE ExpenseBody(m, e)

\* netAmount without the reverse cell.
netAmount_OneWay(m, p1, p2) == m[p1][p2]

\* l.180-183
netAmount(m, p1, p2) == FSub(m[p1][p2], m[p2][p1])

Debt(f, t, a) == [from |-> f, to |-> t, amount |-> a]

\* PairDebts whose second branch keeps the direction of the first.
PairDebts_SameDirection(m, p1, p2) ==
    LET net == FSub(m[p1][p2], m[p2][p1])
    IN  IF net > Threshold THEN <<Debt(p1, p2, net)>>
        ELSE IF net < -Threshold THEN <<Debt(p1, p2, -net)>>
        ELSE <<>>

\* PairDebts comparing with >= and <=.
PairDebts_Inclusive(m, p1, p2) ==
    LET net == FSub(m[p1][p2], m[p2][p1])
    IN  IF net >= Threshold THEN <<Debt(p1, p2, net)>>
        ELSE IF net <= -Threshold THEN <<Debt(p2, p1, -net)>>
        ELSE <<>>

\* l.185-189: what one iteration of the inner loop pushes.
PairDebts(m, p1, p2) ==
    LET net == netAmount(m, p1, p2)
    IN  IF net > Threshold THEN <<Debt(p1, p2, net)>>
        ELSE IF net < -Threshold THEN <<Debt(p2, p1, -net)>>
        ELSE <<>>

\* Push that adds at the front (unshift).
Push_Front(list, items) == items \o list

\* l.186, l.188: finalDebts.push(...)
Push(list, items) == list \o items

\* NextPair with the inner loop starting at j = 0 instead of j = i + 1.
NextPair_AllColumns(i, j, n) == IF j < n THEN <<i, j + 1>> ELSE <<i + 1, 1>>

\* l.175-176: the pair visited after (i, j) in a roster of n.
NextPair(i, j, n) == IF j < n THEN <<i, j + 1>> ELSE <<i + 1, i + 2>>

\* The whole function as an operator, for what a claim says of two calls.
RECURSIVE ForEachFrom(_, _, _)
ForEachFrom(m, exps, x) ==
    IF x > Len(exps) THEN Went(m)
    ELSE LET r == ForEachBody(m, exps[x])
         IN  IF r.threw THEN Threw ELSE ForEachFrom(r.m, exps, x + 1)

RECURSIVE NetFrom(_, _, _, _)
NetFrom(m, parts, ij, debts) ==
    IF ij[1] >= Len(parts) THEN debts
    ELSE NetFrom(m, parts, NextPair(ij[1], ij[2], Len(parts)),
                 Push(debts, PairDebts(m, parts[ij[1]], parts[ij[2]])))

calculateBalances(exps, parts) ==
    IF TooFew(TRUE, parts) THEN [threw |-> FALSE, debts |-> <<>>]
    ELSE LET r == ForEachFrom(NewMatrix(parts), exps, 1)
         IN  IF r.threw THEN [threw |-> TRUE, debts |-> <<>>]
             ELSE [threw |-> FALSE,
                   debts |-> NetFrom(r.m, parts, <<1, 2>>, <<>>)]

\* ------------------------------------------------------------------ inputs
\* Every roster of at most as many entries as there are names, repeated
\* names included (the function does not deduplicate).
Rosters == UNION {[1..n -> Names] : n \in 0..Cardinality(Names)}

\* The transactions the lists are drawn from: expenses of the four split
\* methods (with and without the payer's own share, reconciled and not), a
\* zero amount, and payments, one of them of exactly 0.01.
TxSet ==
    {EvenlyExpense(Dec(90, 1), "Alice", <<"Alice", "Bob", "Carol">>),
     EvenlyExpense(Dec(100, 1), "Alice", <<"Alice", "Bob">>),
     EvenlyExpense(0, "Bob", <<"Alice", "Carol">>)}
    \cup {ValuesExpense("amount", Dec(6, 10), "Alice", <<Entry("Bob", v)>>) :
             v \in {Dec(1, 10), Dec(2, 10), Dec(3, 10)}}
    \cup {ValuesExpense("percentage", Dec(100, 1), "Carol",
                        <<Entry("Alice", Dec(50, 1)), Entry("Carol", Dec(50, 1))>>),
          ItemExpense(Dec(33, 1), "Carol",
                      <<Entry("Alice", Dec(10, 1)), Entry("Bob", Dec(20, 1))>>)}
    \cup {Payment(Dec(50, 1), "Bob", "Alice"),
          Payment(Dec(1, 100), "Alice", "Bob")}

TxLists == UNION {[1..n -> TxSet] : n \in 0..MaxTx}

\* ----------------------------------------------------------- state machine
VARIABLES
    rosterGiven,    \* FALSE when the call passes no roster at all
    participants,   \* the roster argument: a sequence of names
    expenses,       \* the transaction list argument
    pc,             \* "call", "forEach", "net", "done" or "threw"
    debtsMatrix,    \* the ledger
    k,              \* index of the next transaction of expenses.forEach
    i, j,           \* the loop variables of the netting loops (1-based)
    finalDebts      \* the list being returned

\* The state of the React components around the function.
VARIABLES
    groupName,      \* groupData.name; "" while GroupSetup is on screen
    memoDebts,      \* debts of l.418: what useMemo last computed
    sortOrder,      \* ExpenseList: "desc" or "asc"
    historyFilter,  \* ExpenseList: "all", "expenses" or "payments"
    memberFilter,   \* ExpenseList: "all" or a participant name
    nextId,         \* the ids crypto.randomUUID has handed out so far
    form            \* the state of the expense form

ui == <<groupName, memoDebts, sortOrder, historyFilter, memberFilter, nextId,
        form>>

vars ==
    <<rosterGiven, participants, expenses, pc, debtsMatrix, k, i, j, finalDebts,
      ui>>

\* No component is mounted: the function is called on its own.
NoUi ==
    /\ groupName = ""
    /\ memoDebts = <<>>
    /\ sortOrder = "desc"
    /\ historyFilter = "all"
    /\ memberFilter = "all"
    /\ nextId = 0
    /\ form = <<>>

\* The locals of a call that has not started.
NotStarted ==
    /\ pc = "call"
    /\ debtsMatrix = <<>>
    /\ k = 1
    /\ i = 1
    /\ j = 2
    /\ finalDebts = <<>>
    /\ NoUi

Init ==
    /\ participants \in Rosters
    /\ rosterGiven \in (IF participants = <<>> THEN BOOLEAN ELSE {TRUE})
    /\ expenses \in TxLists
    /\ pc = "call"
    /\ debtsMatrix = <<>>
    /\ k = 1
    /\ i = 1
    /\ j = 2
    /\ finalDebts = <<>>
    /\ NoUi

\* l.110-120: the guard and the construction of the ledger.
Enter ==
    /\ pc = "call"
    /\ IF TooFew(rosterGiven, participants)
       THEN /\ pc' = "done"
            /\ finalDebts' = <<>>
            /\ UNCHANGED <<debtsMatrix, k>>
       ELSE /\ pc' = "forEach"
            /\ debtsMatrix' = NewMatrix(participants)
            /\ k' = 1
            /\ UNCHANGED finalDebts
    /\ UNCHANGED <<rosterGiven, participants, expenses, i, j>>
    /\ UNCHANGED ui

\* l.122-172: one iteration of expenses.forEach.
ForEachStep ==
    /\ pc = "forEach"
    /\ k <= Len(expenses)
    /\ LET r == ForEachBody(debtsMatrix, expenses[k])
       IN  IF r.threw
           THEN /\ pc' = "threw"
                /\ UNCHANGED <<debtsMatrix, k>>
           ELSE /\ pc' = "forEach"
                /\ debtsMatrix' = r.m
                /\ k' = k + 1
    /\ UNCHANGED <<rosterGiven, participants, expenses, i, j, finalDebts>>
    /\ UNCHANGED ui

\* StartNetting that goes on with the debt list of the call before.
StartNetting_Reuse ==
    /\ pc = "forEach"
    /\ k > Len(expenses)
    /\ pc' = "net"
    /\ i' = 1
    /\ j' = 2
    /\ UNCHANGED <<rosterGiven, participants, expenses, debtsMatrix, k,
                   finalDebts>>
    /\ UNCHANGED ui

\* l.174-176: forEach is over; the netting loops start at i = 0, j = 1.
StartNetting ==
    /\ pc = "forEach"
    /\ k > Len(expenses)
    /\ pc' = "net"
    /\ finalDebts' = <<>>
    /\ i' = 1
    /\ j' = 2
    /\ UNCHANGED <<rosterGiven, participants, expenses, debtsMatrix, k>>
    /\ UNCHANGED ui

\* l.177-190: one iteration of the inner loop; l.193 after the last one.
NetPair ==
    /\ pc = "net"
    /\ finalDebts' = Push(finalDebts,
                          PairDebts(debtsMatrix, participants[i], participants[j]))
    /\ LET nxt == NextPair(i, j, Len(participants))
       IN  /\ i' = nxt[1]
           /\ j' = nxt[2]
           /\ pc' = IF nxt[1] >= Len(participants) THEN "done" ELSE "net"
    /\ UNCHANGED <<rosterGiven, participants, expenses, debtsMatrix, k>>
    /\ UNCHANGED ui

Next == Enter \/ ForEachStep \/ StartNetting \/ NetPair

Spec == Init /\ [][Next]_vars

\* ------------------------------------- malformed and unreconciled inputs
\* The record e without one of its fields.
Without(e, field) == [e EXCEPT !.has = @ \ {field}]

LooseRosters ==
    {r \in Rosters : \A x, y \in DOMAIN r : x # y => r[x] # r[y]}

\* Transactions as an imported file can hold them: sound ones, percentages
\* that do not sum to 100, item costs with a zero or negative total,
\* records without an amount or a payer, expenses without the split data of
\* their method or with an unknown method, payments without a recipient.
LooseTxSet ==
    {EvenlyExpense(Dec(100, 1), "Alice", <<"Alice", "Bob", "Carol">>),
     EvenlyExpense(Dec(100, 1), "Alice", <<"Alice", "Bob">>),
     Payment(Dec(50, 1), "Bob", "Alice"),
     ValuesExpense("percentage", Dec(100, 1), "Carol",
                   <<Entry("Alice", Dec(50, 1)), Entry("Bob", Dec(30, 1))>>),
     ItemExpense(Dec(33, 1), "Carol",
                 <<Entry("Alice", Dec(10, 1)), Entry("Bob", Dec(20, 1))>>),
     ItemExpense(Dec(100, 1), "Carol",
                 <<Entry("Alice", Dec(10, 1)), Entry("Bob", Dec(20, 1))>>),
     ItemExpense(Dec(33, 1), "Carol",
                 <<Entry("Alice", 0), Entry("Bob", 0)>>),
     ItemExpense(Dec(33, 1), "Carol",
                 <<Entry("Alice", Dec(10, 1)), Entry("Bob", -Dec(20, 1))>>)}
    \cup {Without(EvenlyExpense(Dec(90, 1), "Alice", <<"Alice", "Bob">>), "amount"),
          EvenlyExpense(0, "Alice", <<"Alice", "Bob">>),
          Without(EvenlyExpense(Dec(90, 1), "Alice", <<"Alice", "Bob">>), "paidBy"),
          Without(Payment(Dec(50, 1), "Bob", "Alice"), "amount"),
          Without(Payment(Dec(50, 1), "Bob", "Alice"), "paidBy")}
    \cup {Without(EvenlyExpense(Dec(90, 1), "Alice", <<"Alice", "Bob">>),
                  "splitBetween"),
          EvenlyExpense(Dec(90, 1), "Alice", <<>>),
          Without(ValuesExpense("amount", Dec(90, 1), "Alice",
                                <<Entry("Bob", Dec(90, 1))>>), "splitValues"),
          Without(ValuesExpense("percentage", Dec(90, 1), "Alice",
                                <<Entry("Bob", Dec(50, 1))>>), "splitValues"),
          Without(ItemExpense(Dec(33, 1), "Alice",
                              <<Entry("Bob", Dec(20, 1))>>), "itemized"),
          [EvenlyExpense(Dec(90, 1), "Alice", <<"Alice", "Bob">>)
              EXCEPT !.splitMethod = "shares"]}
    \cup {Without(Payment(Dec(50, 1), "Bob", "Alice"), "splitBetween"),
          [Payment(Dec(50, 1), "Bob", "Alice") EXCEPT !.splitBetween = <<>>]}

LooseTxLists == UNION {[1..n -> LooseTxSet] : n \in 0..MaxLooseTx}

InitLoose ==
    /\ participants \in LooseRosters
    /\ rosterGiven \in (IF participants = <<>> THEN BOOLEAN ELSE {TRUE})
    /\ expenses \in LooseTxLists
    /\ NotStarted

SpecLoose == InitLoose /\ [][Next]_vars

\* ------------------------------------------------------- successive calls
CallRosters ==
    {<<"Alice">>, <<"Alice", "Bob">>, <<"Bob", "Alice", "Carol">>}

CallTxSet ==
    {EvenlyExpense(Dec(90, 1), "Alice", <<"Alice", "Bob", "Carol">>),
     EvenlyExpense(Dec(100, 1), "Alice", <<"Alice", "Bob">>),
     Payment(Dec(50, 1), "Bob", "Alice")}

CallTxLists == UNION {[1..n -> CallTxSet] : n \in 0..MaxLooseTx}

InitCalls ==
    /\ participants \in CallRosters
    /\ rosterGiven = TRUE
    /\ expenses \in CallTxLists
    /\ NotStarted

\* l.418: GroupView calls the function again whenever expenses or
\* participants change; the structures of the earlier call still exist.
Recall ==
    /\ pc \in {"done", "threw"}
    /\ pc' = "call"
    /\ participants' \in CallRosters
    /\ expenses' \in CallTxLists
    /\ UNCHANGED <<rosterGiven, debtsMatrix, k, i, j, finalDebts>>
    /\ UNCHANGED ui

NextCalls == Next \/ Recall

SpecCalls == InitCalls /\ [][NextCalls]_vars

\* The state machine returns what the function returns.
TypeOK ==
    /\ pc \in {"call", "forEach", "net", "done", "threw"}
    /\ pc = "done" =>
          calculateBalances(expenses, participants) =
             [threw |-> FALSE, debts |-> finalDebts]
    /\ pc = "threw" => calculateBalances(expenses, participants).threw

\* ------------------------------------------------------------------ claims
\* The two names a debt record is between.
Ends(d) == {d.from, d.to}

Distinct(parts) == \A x, y \in DOMAIN parts : x # y => parts[x] # parts[y]

\* The roster index pairs i < j.
IndexPairs ==
    {ij \in (DOMAIN participants) \X (DOMAIN participants) : ij[1] < ij[2]}

\* The net balance of the pair at roster positions ij, from the ledger.
LedgerNet(ij) ==
    FSub(debtsMatrix[participants[ij[1]]][participants[ij[2]]],
         debtsMatrix[participants[ij[2]]][participants[ij[1]]])

Returned == pc = "done" /\ Len(participants) >= 2

\* C1: the debt list never holds both a debt from A to B and a debt from B
\* to A, whatever the roster (repeated names included) and the transactions.
C1_NeverBothDirections ==
    \A x, y \in DOMAIN finalDebts :
        ~(finalDebts[x].from = finalDebts[y].to /\
          finalDebts[x].to = finalDebts[y].from)

\* A returned debt whose pair had contributions in both directions.
C1_Witness ==
    /\ Returned
    /\ \E x \in DOMAIN finalDebts :
          /\ debtsMatrix[finalDebts[x].from][finalDebts[x].to] # 0
          /\ debtsMatrix[finalDebts[x].to][finalDebts[x].from] # 0

\* C2 as stated: for every roster, repeated names included, at most one
\* debt record per unordered pair of names.
C2_OnePerPairAnyRoster ==
    \A x, y \in DOMAIN finalDebts :
        x # y => Ends(finalDebts[x]) # Ends(finalDebts[y])

\* C2 amended: for every roster of pairwise distinct names, at most one debt
\* record per unordered pair of names.
C2_OnePerPairDistinctRoster ==
    Distinct(participants) => C2_OnePerPairAnyRoster

\* A roster of distinct names with a debt for each of its three pairs.
C2_Witness ==
    /\ Returned
    /\ Distinct(participants)
    /\ Len(finalDebts) = 3

\* C3: every emitted debt has an amount strictly above 0.01, and a pair
\* whose net balance lies within [-0.01, 0.01] has no debt record.
C3_SettlementThreshold ==
    /\ \A x \in DOMAIN finalDebts : finalDebts[x].amount > Threshold
    /\ Returned =>
          \A ij \in IndexPairs :
              Abs(LedgerNet(ij)) <= Threshold =>
                  \A x \in DOMAIN finalDebts :
                      Ends(finalDebts[x]) #
                          {participants[ij[1]], participants[ij[2]]}

\* A pair whose net balance is exactly 0.01 next to a pair with a debt.
C3_Witness ==
    /\ Returned
    /\ \E ij \in IndexPairs : Abs(LedgerNet(ij)) = Threshold
    /\ finalDebts # <<>>

\* What C4 says the pair at ij contributes.
C4_Expected(ij) ==
    LET p1 == participants[ij[1]]
        p2 == participants[ij[2]]
        net == LedgerNet(ij)
    IN  IF net > Threshold THEN {[from |-> p1, to |-> p2, amount |-> net]}
        ELSE IF net < -Threshold
             THEN {[from |-> p2, to |-> p1, amount |-> -net]}
             ELSE {}

\* C4: for positions i < j, net = ledger[p1][p2] - ledger[p2][p1]; the list
\* holds {p1, p2, net} when net > 0.01, {p2, p1, -net} when net < -0.01,
\* nothing for the pair otherwise, and no other record.
C4_NettingRule ==
    Returned =>
        /\ \A ij \in IndexPairs :
              \A d \in C4_Expected(ij) :
                  \E x \in DOMAIN finalDebts : finalDebts[x] = d
        /\ \A x \in DOMAIN finalDebts :
              \E ij \in IndexPairs : finalDebts[x] \in C4_Expected(ij)
        /\ Len(finalDebts) =
              Cardinality({ij \in IndexPairs : C4_Expected(ij) # {}})

\* A call that took all three branches: p1 owes p2, p2 owes p1, settled.
C4_Witness ==
    /\ Returned
    /\ \E ij \in IndexPairs : LedgerNet(ij) > Threshold
    /\ \E ij \in IndexPairs : LedgerNet(ij) < -Threshold
    /\ \E ij \in IndexPairs :
          LedgerNet(ij) # 0 /\ Abs(LedgerNet(ij)) <= Threshold

\* The transaction list reordered by the permutation p of its indices.
Permuted(p) == [x \in DOMAIN expenses |-> expenses[p[x]]]

\* C5 as stated: the result is the same for every permutation of the same
\* transaction list (and so for the same list again).
C5_OrderIndependent ==
    pc = "done" =>
        \A p \in Permutations(DOMAIN expenses) :
            calculateBalances(Permuted(p), participants) =
                [threw |-> FALSE, debts |-> finalDebts]

LexLess(p, q) == p[1] < q[1] \/ (p[1] = q[1] /\ p[2] < q[2])

\* C6: the debts appear in increasing lexicographic order of the roster
\* index pair (i, j), i < j, of their two participants, whichever of the two
\* is the debtor and whatever the order of the transactions.
C6_RosterOrder ==
    \E f \in [DOMAIN finalDebts -> IndexPairs] :
        /\ \A x \in DOMAIN finalDebts :
              Ends(finalDebts[x]) =
                  {participants[f[x][1]], participants[f[x][2]]}
        /\ \A x, y \in DOMAIN finalDebts : x < y => LexLess(f[x], f[y])

\* The roster position of a name (rosters of distinct names).
Pos(n) == CHOOSE x \in DOMAIN participants : participants[x] = n

\* A returned list with a debtor standing before its creditor in the roster
\* and another standing after.
C6_Witness ==
    /\ Returned
    /\ Distinct(participants)
    /\ Len(finalDebts) >= 2
    /\ \E x \in DOMAIN finalDebts :
          Pos(finalDebts[x].from) < Pos(finalDebts[x].to)
    /\ \E x \in DOMAIN finalDebts :
          Pos(finalDebts[x].from) > Pos(finalDebts[x].to)

InRoster(n) == n \in Range(participants)

\* The forEach iteration about to run handles a transaction with an amount
\* and a payer.
AtTx == pc = "forEach" /\ k <= Len(expenses)
Complete(e) == {"amount", "paidBy"} \subseteq e.has /\ e.amount # 0 /\ e.paidBy # ""

C7_Step ==
    (/\ AtTx
     /\ expenses[k].isPayment
     /\ Complete(expenses[k])
     /\ "splitBetween" \in expenses[k].has
     /\ Len(expenses[k].splitBetween) >= 1
     /\ InRoster(expenses[k].paidBy)
     /\ InRoster(expenses[k].splitBetween[1]))
    => LET P == expenses[k].paidBy
           R == expenses[k].splitBetween[1]
           X == expenses[k].amount
       IN  /\ pc' = "forEach"
           /\ debtsMatrix' =
                 [a \in Range(participants) |->
                    [b \in Range(participants) |->
                       IF a = P /\ b = R
                       THEN FSub(debtsMatrix[a][b], X)
                       ELSE debtsMatrix[a][b]]]

\* C7: a payment of X from P to R, both in the roster, decrements
\* ledger[P][R] by X and changes no other ledger cell.
C7_PaymentDecrements == [][C7_Step]_vars

\* The state after a payment between two roster members was booked.
C7_Witness ==
    /\ pc = "forEach"
    /\ k > 2
    /\ expenses[k - 1].isPayment
    /\ InRoster(expenses[k - 1].paidBy)
    /\ InRoster(expenses[k - 1].splitBetween[1])
    /\ debtsMatrix[expenses[k - 1].paidBy][expenses[k - 1].splitBetween[1]] # 0
    /\ debtsMatrix[expenses[k - 1].splitBetween[1]][expenses[k - 1].paidBy] # 0

C8_Step ==
    (/\ AtTx
     /\ ~expenses[k].isPayment
     /\ Complete(expenses[k])
     /\ InRoster(expenses[k].paidBy)
     /\ pc' = "forEach")
    => LET e == expenses[k]
           shares == Shares(e)
       IN  \A b, c \in Range(participants) :
               debtsMatrix'[b][c] =
                   IF c = e.paidBy /\ b # e.paidBy /\ b \in DOMAIN shares
                   THEN FAdd(debtsMatrix[b][c], shares[b])
                   ELSE debtsMatrix[b][c]

C8_NoSelfDebt ==
    \A x \in DOMAIN finalDebts : finalDebts[x].from # finalDebts[x].to

\* C8: every share of a borrower other than paidBy is added to
\* ledger[borrower][paidBy], the payer's own share changes no cell, and no
\* debt from a participant to themself is ever emitted.
C8_NoSelfOwing == [][C8_Step]_vars /\ []C8_NoSelfDebt

\* The state after an expense whose payer holds a share of it was booked.
C8_Witness ==
    /\ pc = "forEach"
    /\ k > 1
    /\ ~expenses[k - 1].isPayment
    /\ Complete(expenses[k - 1])
    /\ InRoster(expenses[k - 1].paidBy)
    /\ expenses[k - 1].paidBy \in DOMAIN Shares(expenses[k - 1])
    /\ \E b \in Range(participants) :
          debtsMatrix[b][expenses[k - 1].paidBy] # 0

C9_Step ==
    (/\ AtTx
     /\ ~expenses[k].isPayment
     /\ Complete(expenses[k])
     /\ expenses[k].splitMethod = "evenly"
     /\ "splitBetween" \in expenses[k].has
     /\ Len(expenses[k].splitBetween) > 0
     /\ InRoster(expenses[k].paidBy)
     /\ \A n \in Range(expenses[k].splitBetween) : InRoster(n))
    => LET e == expenses[k]
       IN  /\ pc' = "forEach"
           /\ \A n \in Range(e.splitBetween) \ {e.paidBy} :
                 debtsMatrix'[n][e.paidBy] =
                     FAdd(debtsMatrix[n][e.paidBy],
                          FDiv(e.amount, FromInt(Len(e.splitBetween))))

C9_Example ==
    (/\ pc = "done"
     /\ participants = <<"Alice", "Bob", "Carol">>
     /\ expenses = <<EvenlyExpense(Dec(90, 1), "Alice",
                                   <<"Alice", "Bob", "Carol">>)>>)
    => finalDebts = <<[from |-> "Bob", to |-> "Alice", amount |-> Dec(30, 1)],
                      [from |-> "Carol", to |-> "Alice", amount |-> Dec(30, 1)]>>

\* C9: an 'evenly' expense with a non-empty splitBetween allocates
\* amount / count(splitBetween) to every name in it; 90 paid by Alice among
\* Alice, Bob and Carol gives exactly Bob owes Alice 30, Carol owes Alice 30.
C9_EvenSplit == [][C9_Step]_vars /\ []C9_Example

\* The end of the example call.
C9_Witness ==
    /\ pc = "done"
    /\ participants = <<"Alice", "Bob", "Carol">>
    /\ expenses = <<EvenlyExpense(Dec(90, 1), "Alice",
                                  <<"Alice", "Bob", "Carol">>)>>
    /\ Len(finalDebts) = 2

\* Non-zero amounts an 'amount' expense could carry instead of its own.
C10_OtherAmounts == {Dec(1, 100), Dec(3, 10), Dec(30, 1), Dec(100, 1)}

C10_Step ==
    (/\ AtTx
     /\ ~expenses[k].isPayment
     /\ Complete(expenses[k])
     /\ expenses[k].splitMethod = "amount"
     /\ "splitValues" \in expenses[k].has
     /\ InRoster(expenses[k].paidBy)
     /\ \A x \in DOMAIN expenses[k].splitValues :
           InRoster(expenses[k].splitValues[x].name))
    => LET e == expenses[k]
       IN  /\ pc' = "forEach"
           /\ \A x \in DOMAIN e.splitValues :
                 e.splitValues[x].name # e.paidBy =>
                     debtsMatrix'[e.splitValues[x].name][e.paidBy] =
                         FAdd(debtsMatrix[e.splitValues[x].name][e.paidBy],
                              e.splitValues[x].value)
           /\ \A a \in C10_OtherAmounts :
                 ForEachBody(debtsMatrix, [e EXCEPT !.amount = a]) =
                     Went(debtsMatrix')

\* C10: an 'amount' expense adds the literal stored split values, whatever
\* its (non-zero) amount field is and whether or not they sum to it.
C10_LiteralAmounts == [][C10_Step]_vars

\* The state after an 'amount' expense whose values do not sum to its
\* amount was booked.
C10_Witness ==
    /\ pc = "forEach"
    /\ k > 1
    /\ ~expenses[k - 1].isPayment
    /\ expenses[k - 1].splitMethod = "amount"
    /\ SumValues(expenses[k - 1].splitValues, 0) # expenses[k - 1].amount
    /\ InRoster(expenses[k - 1].paidBy)
    /\ \E x \in DOMAIN expenses[k - 1].splitValues :
          /\ InRoster(expenses[k - 1].splitValues[x].name)
          /\ debtsMatrix[expenses[k - 1].splitValues[x].name]
                        [expenses[k - 1].paidBy] # 0

\* The first transaction has been booked into the fresh ledger and it was an
\* expense of the given split method with an amount and a payer.
FirstBooked(method) ==
    /\ pc = "forEach"
    /\ k = 2
    /\ ~expenses[1].isPayment
    /\ Complete(expenses[1])
    /\ expenses[1].splitMethod = method

\* The ledger holds exactly the given shares owed to the payer of the
\* first transaction, the payer's own share left out.
LedgerIs(shares) ==
    debtsMatrix =
       [a \in Range(participants) |->
          [b \in Range(participants) |->
             IF a \in DOMAIN shares /\ a # expenses[1].paidBy
                                    /\ b = expenses[1].paidBy
             THEN shares[a] ELSE 0]]

\* C11: a 'percentage' expense of amount X gives each listed participant
\* with stored percentage v the share X * (v / 100), whether or not the
\* percentages sum to 100.
C11_PercentageShares ==
    (/\ FirstBooked("percentage")
     /\ "splitValues" \in expenses[1].has
     /\ InRoster(expenses[1].paidBy))
    => LET e == expenses[1]
       IN  LedgerIs([n \in Range(EntryNameSeq(e.splitValues)) |->
                       FMul(e.amount,
                            FDiv(ValueOf(e.splitValues, n), FromInt(100)))])

\* The state after a 'percentage' expense whose percentages sum to 80 was
\* booked.
C11_Witness ==
    /\ FirstBooked("percentage")
    /\ "splitValues" \in expenses[1].has
    /\ SumValues(expenses[1].splitValues, 0) # FromInt(100)
    /\ InRoster(expenses[1].paidBy)
    /\ InRoster("Bob")
    /\ debtsMatrix["Bob"][expenses[1].paidBy] = Dec(30, 1)

\* baseTotal and extras of the first transaction (l.155-156).
FirstBaseTotal == SumValues(expenses[1].itemized, 0)
FirstExtras == FSub(expenses[1].amount, FirstBaseTotal)

\* The first transaction has been booked, it was an 'item' expense with an
\* itemized object and a payer of the roster.
FirstItemBooked ==
    /\ FirstBooked("item")
    /\ "itemized" \in expenses[1].has
    /\ InRoster(expenses[1].paidBy)

\* The statement as first written: the proportion is itemCost / baseTotal
\* unless baseTotal is 0.
C12_ZeroOnlyAtZero ==
    FirstItemBooked
    => LET e == expenses[1]
       IN  LedgerIs([n \in Range(EntryNameSeq(e.itemized)) |->
                       LET itemCost == ValueOf(e.itemized, n)
                           proportion ==
                              IF FirstBaseTotal = 0 THEN 0
                              ELSE FDiv(itemCost, FirstBaseTotal)
                       IN  FAdd(itemCost, FMul(FirstExtras, proportion))])

\* C12: an 'item' expense gives each named participant the share
\* itemized[name] + extras * proportion with extras = amount - baseTotal and
\* proportion = itemized[name] / baseTotal, the proportion being 0 whenever
\* baseTotal is not positive (zero or negative); amount 33 with itemized
\* {Alice: 10, Bob: 20} gives Alice 11 and Bob 22.
C12_ItemShares ==
    FirstItemBooked
    => LET e == expenses[1]
       IN  /\ LedgerIs([n \in Range(EntryNameSeq(e.itemized)) |->
                          LET itemCost == ValueOf(e.itemized, n)
                              proportion ==
                                 IF FirstBaseTotal > 0
                                 THEN FDiv(itemCost, FirstBaseTotal)
                                 ELSE 0
                          IN  FAdd(itemCost, FMul(FirstExtras, proportion))])
           /\ (/\ e.amount = Dec(33, 1)
               /\ e.itemized = <<Entry("Alice", Dec(10, 1)),
                                 Entry("Bob", Dec(20, 1))>>
               /\ {"Alice", "Bob"} \subseteq Range(participants)
               /\ e.paidBy = "Carol")
              => /\ debtsMatrix["Alice"]["Carol"] = Dec(11, 1)
                 /\ debtsMatrix["Bob"]["Carol"] = Dec(22, 1)

\* The state after an 'item' expense with a negative baseTotal was booked:
\* every named participant owes the bare item cost.
C12_Witness ==
    /\ FirstItemBooked
    /\ FirstBaseTotal < 0
    /\ FirstExtras # 0
    /\ InRoster("Alice")
    /\ debtsMatrix["Alice"][expenses[1].paidBy] = Dec(10, 1)

\* The exact (unrounded) sum of what the listed people owe the payer of the
\* first transaction.
RECURSIVE OwedSum(_)
OwedSum(names) ==
    IF names = <<>> THEN 0
    ELSE debtsMatrix[Head(names)][expenses[1].paidBy] + OwedSum(Tail(names))

\* The first transaction has been booked, it was an 'item' expense with a
\* positive baseTotal and its payer is not one of the named people, so that
\* the ledger shows every share.
FirstItemShown ==
    /\ FirstItemBooked
    /\ FirstBaseTotal > 0
    /\ expenses[1].paidBy \notin Range(EntryNameSeq(expenses[1].itemized))

\* The largest magnitude among the amount, baseTotal, extras, the item
\* costs and the shares of the first transaction.
FirstItemMagnitude ==
    LET e == expenses[1]
        mags == {Abs(e.amount), Abs(FirstBaseTotal), Abs(FirstExtras)}
                \cup {Abs(e.itemized[x].value) : x \in DOMAIN e.itemized}
                \cup {Abs(debtsMatrix[e.itemized[x].name][e.paidBy]) :
                         x \in DOMAIN e.itemized}
    IN  CHOOSE x \in mags : \A y \in mags : x >= y

\* The statement as first written: the shares sum to the amount.
C13_ExactSum ==
    FirstItemShown
    => OwedSum(EntryNameSeq(expenses[1].itemized)) = expenses[1].amount

\* C13: for an 'item' expense with a positive baseTotal the shares of all
\* named people sum to the amount up to floating-point rounding: with n
\* named people the sum is within 3n + 2 units in the last place of the
\* largest quantity involved.
C13_ItemReconciliation ==
    FirstItemShown
    => LET e == expenses[1]
           n == Len(e.itemized)
       IN  Abs(OwedSum(EntryNameSeq(e.itemized)) - e.amount)
              <= (3 * n + 2) * UlpOf(FirstItemMagnitude, 1, 1)

\* The state after an 'item' expense with extras was booked whose shares,
\* each rounded, do not sum to the amount.
C13_Witness ==
    /\ FirstItemShown
    /\ FirstExtras > 0
    /\ OwedSum(EntryNameSeq(expenses[1].itemized)) # expenses[1].amount

\* The first transaction has been booked, it was an evenly-split expense
\* whose payer is one of the people it is split between, all of the roster.
FirstEvenlyBooked ==
    /\ FirstBooked("evenly")
    /\ "splitBetween" \in expenses[1].has
    /\ expenses[1].paidBy \in Range(expenses[1].splitBetween)
    /\ InRoster(expenses[1].paidBy)

\* The statement as first written: what the expense adds to the ledger,
\* the payer's own cell counting as zero, sums to the amount.
C14_ZeroSum ==
    FirstEvenlyBooked => OwedSum(expenses[1].splitBetween) = expenses[1].amount

\* C14: an evenly-split expense of amount X among N people, the payer one
\* of them, adds the share X / N for each of the N - 1 others to the ledger
\* and nothing for the payer, so that the amounts emitted sum to
\* (N - 1) * (X / N); only together with the payer's own share X / N do the
\* N shares sum to X, up to the rounding of the division.
C14_Conservation ==
    FirstEvenlyBooked
    => LET e == expenses[1]
           N == Len(e.splitBetween)
           share == FDiv(e.amount, FromInt(N))
       IN  /\ \A x \in DOMAIN e.splitBetween :
                 debtsMatrix[e.splitBetween[x]][e.paidBy] =
                    IF e.splitBetween[x] = e.paidBy THEN 0 ELSE share
           /\ OwedSum(e.splitBetween) = (N - 1) * share
           /\ 2 * Abs(N * share - e.amount) <= N * UlpOf(Abs(e.amount), 1, 1)

\* The state after 100 was split evenly among three people, the payer one
\* of them, and two shares were booked.
C14_Witness ==
    /\ FirstEvenlyBooked
    /\ Len(expenses[1].splitBetween) = 3
    /\ OwedSum(expenses[1].splitBetween) # 0
    /\ OwedSum(expenses[1].splitBetween) # expenses[1].amount
    /\ 3 * FDiv(expenses[1].amount, FromInt(3)) # expenses[1].amount

\* The call has returned for a list of an expense followed by a payment in
\* which B pays A exactly the amount S that the expense alone leaves B
\* owing A.
SettledBy(A, B, S) ==
    /\ Returned
    /\ Len(expenses) = 2
    /\ ~expenses[1].isPayment
    /\ expenses[2] = Payment(S, B, A)
    /\ LET alone == calculateBalances(<<expenses[1]>>, participants)
       IN  /\ ~alone.threw
           /\ \E x \in DOMAIN alone.debts : alone.debts[x] = Debt(B, A, S)

\* C15: when an expense leaves B owing A an amount S and B then pays A
\* exactly S, the net balance between B and A is 0 and the returned list
\* holds no record between the two; so for A paying 100 split evenly
\* between A and B followed by B paying A 50.
C15_PaymentNetting ==
    \A A, B \in Range(participants) :
        \A S \in {expenses[x].amount : x \in DOMAIN expenses} :
            SettledBy(A, B, S)
            => /\ FSub(debtsMatrix[B][A], debtsMatrix[A][B]) = 0
               /\ \A x \in DOMAIN finalDebts : Ends(finalDebts[x]) # {A, B}

\* The call has returned for Alice paying 100 split evenly between Alice and
\* Bob followed by Bob paying Alice 50.
C15_Witness ==
    /\ SettledBy("Alice", "Bob", Dec(50, 1))
    /\ expenses[1] = EvenlyExpense(Dec(100, 1), "Alice", <<"Alice", "Bob">>)
    /\ finalDebts = <<>>

\* C16: with fewer than 2 participants, or no roster at all, the call
\* returns at once with an empty debt list, whatever the transaction list
\* holds: no transaction is read and nothing is netted.
C16_TooFewParticipants ==
    (~rosterGiven \/ Len(participants) < 2)
    => /\ pc \in {"call", "done"}
       /\ finalDebts = <<>>
       /\ debtsMatrix = <<>>

\* A call with a roster of one and a list holding a transaction that a
\* longer roster would have booked has returned.
C16_Witness ==
    /\ pc = "done"
    /\ rosterGiven
    /\ Len(participants) = 1
    /\ finalDebts = <<>>
    /\ \E x \in DOMAIN expenses : ~Skipped(expenses[x])

\* The list without its x-th element.
Removed(list, x) == SubSeq(list, 1, x - 1) \o SubSeq(list, x + 1, Len(list))

\* What the call that has ended produced.
Outcome == [threw |-> pc = "threw", debts |-> finalDebts]
Ended == pc \in {"done", "threw"}

\* A transaction with a missing or zero amount, or with a missing paidBy.
Incomplete(e) ==
    \/ "amount" \notin e.has
    \/ e.amount = 0
    \/ "paidBy" \notin e.has

\* C17: a transaction (expense or payment) with a missing or zero amount,
\* or with a missing paidBy, is a no-op: the call on a list holding it ends
\* as the call on the list with it removed does, with the same debt list.
C17_IncompleteIsNoOp ==
    Ended
    => \A x \in DOMAIN expenses :
          Incomplete(expenses[x])
          => calculateBalances(Removed(expenses, x), participants) = Outcome

\* A call on a list of a payment without an amount and an expense that
\* leaves a debt has returned.
C17_Witness ==
    /\ pc = "done"
    /\ finalDebts # <<>>
    /\ \E x \in DOMAIN expenses :
          expenses[x].isPayment /\ Incomplete(expenses[x])
    /\ \E x \in DOMAIN expenses :
          ~expenses[x].isPayment /\ ~Incomplete(expenses[x])

\* C18: the core has no fatal errors: for every roster and every
\* transaction list, malformed ones included, the call returns a debt list
\* and is never aborted by an exception.
C18_NeverAborts == pc # "threw"

\* An expense, with an amount and a payer, that lacks the split data of its
\* method or whose method is none of the four.
NoSplitData(e) ==
    /\ ~e.isPayment
    /\ ~Incomplete(e)
    /\ \/ /\ e.splitMethod = "evenly"
          /\ "splitBetween" \notin e.has \/ e.splitBetween = <<>>
       \/ /\ e.splitMethod \in {"amount", "percentage"}
          /\ "splitValues" \notin e.has
       \/ /\ e.splitMethod = "item"
          /\ "itemized" \notin e.has
       \/ e.splitMethod \notin {"evenly", "amount", "percentage", "item"}

\* C19: an expense whose split data for its method is missing, or whose
\* splitMethod is not one of the four, contributes nothing: booked first it
\* leaves every ledger cell 0 and does not abort the call, and the call on
\* a list holding it ends as the call on the list with it removed does.
C19_NoSplitDataIsNoOp ==
    /\ (pc \in {"forEach", "threw"} /\ k = 1 /\ expenses # <<>>
           /\ NoSplitData(expenses[1]))
       => pc = "forEach"
    /\ (pc = "forEach" /\ k = 2 /\ NoSplitData(expenses[1]))
       => \A a, b \in Range(participants) : debtsMatrix[a][b] = 0
    /\ Ended
       => \A x \in DOMAIN expenses :
             NoSplitData(expenses[x])
             => calculateBalances(Removed(expenses, x), participants) = Outcome

\* A call on a list of an expense with an unknown split method, carrying
\* a splitBetween list, and an expense that leaves a debt has returned.
C19_Witness ==
    /\ pc = "done"
    /\ finalDebts # <<>>
    /\ \E x \in DOMAIN expenses :
          /\ NoSplitData(expenses[x])
          /\ expenses[x].splitMethod = "shares"
          /\ expenses[x].splitBetween # <<>>

\* A step of a call in progress leaves both arguments as they are.
C20_Frame ==
    ~Ended => /\ participants' = participants
              /\ expenses' = expenses

\* A call that follows other calls ends as a first call on the same
\* arguments does.
C20_Fresh ==
    /\ pc = "done" =>
          calculateBalances(expenses, participants) =
             [threw |-> FALSE, debts |-> finalDebts]
    /\ pc = "threw" => calculateBalances(expenses, participants).threw
    /\ (pc = "forEach" /\ k = 1)
          => \A a, b \in Range(participants) : debtsMatrix[a][b] = 0

TypedNames == {"Alice", "alice", "Bob"}

\* String.prototype.toLowerCase on the typed names.
toLowerCase(name) ==
    CASE name = "Alice" -> "alice"
      [] name = "alice" -> "alice"
      [] name = "Bob" -> "bob"

\* l.574: the non-empty list of trimmed, non-empty names of one submission.
NameLists == UNION {[1..n -> TypedNames] : n \in 1..2}

\* A stored transaction: the record of a form with its id and its date (a
\* day number).
Saved(e, id, date) ==
    [f \in DOMAIN e \cup {"id", "date"} |->
        IF f = "id" THEN id ELSE IF f = "date" THEN date ELSE e[f]]

\* What the two forms hand to addExpense in GroupView: three 'amount'
\* expenses paid by Alice for Bob and a payment.
GroupTxSet ==
    {Saved(ValuesExpense("amount", Dec(1, 10), "Alice",
                         <<Entry("Bob", Dec(1, 10))>>), 0, 1),
     Saved(ValuesExpense("amount", Dec(2, 10), "Alice",
                         <<Entry("Bob", Dec(2, 10))>>), 0, 2),
     Saved(ValuesExpense("amount", Dec(3, 10), "Alice",
                         <<Entry("Bob", Dec(3, 10))>>), 0, 3),
     Saved(Payment(Dec(50, 1), "Bob", "Alice"), 0, 2)}

\* The names a stored transaction refers to.
NamesOf(e) ==
    {e.paidBy}
    \cup (IF "splitBetween" \in e.has THEN Range(e.splitBetween) ELSE {})
    \cup (IF "splitValues" \in e.has
          THEN Range(EntryNameSeq(e.splitValues)) ELSE {})
    \cup (IF "itemized" \in e.has
          THEN Range(EntryNameSeq(e.itemized)) ELSE {})

\* l.1061-1066: a before b when the comparator is negative.
Before(a, b, order) ==
    IF order = "desc" THEN b.date - a.date < 0 ELSE a.date - b.date < 0

\* Array.prototype.sort with that comparator: stable.
RECURSIVE Inserted(_, _, _)
Inserted(list, e, order) ==
    IF list = <<>> THEN <<e>>
    ELSE IF Before(e, Head(list), order) THEN <<e>> \o list
    ELSE <<Head(list)>> \o Inserted(Tail(list), e, order)

RECURSIVE Sorted(_, _)
Sorted(list, order) ==
    IF list = <<>> THEN <<>>
    ELSE Inserted(Sorted(SubSeq(list, 1, Len(list) - 1), order),
                  list[Len(list)], order)

\* l.1049-1059: the transactions the History list keeps.
Kept(e, hFilter, mFilter) ==
    /\ mFilter = "all"
       \/ mFilter \in {e.paidBy}
                      \cup (IF "splitBetween" \in e.has
                            THEN Range(e.splitBetween) ELSE {})
    /\ \/ hFilter = "all"
       \/ hFilter = "expenses" /\ ~e.isPayment
       \/ hFilter = "payments" /\ e.isPayment

\* l.1047-1067: the list ExpenseList displays.
sortedExpenses(list, order, hFilter, mFilter) ==
    LET Test(e) == Kept(e, hFilter, mFilter)
    IN  Sorted(SelectSeq(list, Test), order)

\* The array of the group after ExpenseList has computed sortedExpenses
\* from it: filter() returns a new array, but without a filter "filtered"
\* is the array of the group itself and sort() sorts it in place.
AfterDisplay(list, order, hFilter, mFilter) ==
    IF mFilter = "all" /\ hFilter = "all" THEN Sorted(list, order) ELSE list

\* l.418: the debts GroupView shows for the given arrays.
Balances(exps, parts) == calculateBalances(exps, parts).debts

\* The variables of the function's own run, unused while the components
\* call it as a whole.
EngineIdle ==
    /\ rosterGiven = TRUE
    /\ pc = "ui"
    /\ debtsMatrix = <<>>
    /\ k = 1
    /\ i = 1
    /\ j = 2
    /\ finalDebts = <<>>

engine == <<rosterGiven, pc, debtsMatrix, k, i, j, finalDebts>>

\* Most ids crypto.randomUUID hands out in one run of the model.
MaxIds == 2

\* l.1577-1583: the application starts on GroupSetup with initialState.
InitGroup ==
    /\ EngineIdle
    /\ groupName = ""
    /\ participants = <<>>
    /\ expenses = <<>>
    /\ memoDebts = <<>>
    /\ sortOrder = "desc"
    /\ historyFilter = "all"
    /\ memberFilter = "all"
    /\ nextId = 0
    /\ form = <<>>

\* l.624-627: the state of AddExpenseForm that is read by more than the
\* submission: the split method, the selected people and the values typed
\* per person (objects, as entries in key order).  The other fields are
\* read by handleSubmit only and are drawn where it is taken.
NewForm ==
    [splitMethod |-> "evenly", splitBetween |-> <<>>, splitValues |-> <<>>,
     itemized |-> <<>>]

\* l.669-673: the effect of the form that adds, run when it mounts and
\* whenever the participants change.
FormEffects(f, parts) ==
    [f EXCEPT !.splitBetween = IF Len(parts) > 0 THEN parts ELSE @]

\* GroupView and ExpenseList render a group for the first time: useMemo
\* computes the debts, then ExpenseList, in its initial state, computes
\* sortedExpenses.
Mount(name, parts, exps) ==
    /\ groupName' = name
    /\ participants' = parts
    /\ memoDebts' = Balances(exps, parts)
    /\ sortOrder' = "desc"
    /\ historyFilter' = "all"
    /\ memberFilter' = "all"
    /\ expenses' = AfterDisplay(exps, "desc", "all", "all")

\* l.266-271, l.1589-1591
setGroupName ==
    /\ groupName = ""
    /\ Mount("Trip", <<>>, <<>>)
    /\ form' = FormEffects(NewForm, <<>>)
    /\ UNCHANGED <<engine, nextId>>

\* updateGroup({ expenses }) followed by the render it causes: l.418
\* recomputes the debts from the new array, then ExpenseList recomputes
\* sortedExpenses from it.
SetExpenses(exps) ==
    /\ memoDebts' = Balances(exps, participants)
    /\ expenses' = AfterDisplay(exps, sortOrder, historyFilter, memberFilter)
    /\ UNCHANGED <<groupName, participants, sortOrder, historyFilter,
                   memberFilter>>

\* newParticipants that does not remember the names it has just taken.
RECURSIVE newParticipants_Forgetful(_, _)
newParticipants_Forgetful(participantNames, existingNames) ==
    IF participantNames = <<>> THEN <<>>
    ELSE LET name == Head(participantNames)
         IN  IF toLowerCase(name) \notin existingNames
             THEN <<name>> \o newParticipants_Forgetful(Tail(participantNames),
                                                        existingNames)
             ELSE newParticipants_Forgetful(Tail(participantNames),
                                            existingNames)

\* l.383-393: the names of one submission that are not in the group yet,
\* compared in lower case, each added to existingNames as it is taken.
RECURSIVE newParticipants(_, _)
newParticipants(participantNames, existingNames) ==
    IF participantNames = <<>> THEN <<>>
    ELSE LET name == Head(participantNames)
         IN  IF toLowerCase(name) \notin existingNames
             THEN <<name>> \o newParticipants(Tail(participantNames),
                                 existingNames \cup {toLowerCase(name)})
             ELSE newParticipants(Tail(participantNames), existingNames)

\* l.381-401 for one list of names, and the render that follows a change
\* of the roster: the debts are recomputed and the effects of the forms
\* run; the ExpenseList memo does not depend on the participants.
AddNames(participantNames) ==
    /\ groupName # ""
    /\ LET existingNames ==
               {toLowerCase(participants[x]) : x \in DOMAIN participants}
           added == newParticipants(participantNames, existingNames)
       IN  IF added # <<>>
           THEN /\ participants' = participants \o added
                /\ memoDebts' = Balances(expenses, participants \o added)
                /\ form' = FormEffects(form, participants \o added)
           ELSE UNCHANGED <<participants, memoDebts, form>>
    /\ UNCHANGED <<engine, groupName, expenses, sortOrder, historyFilter,
                   memberFilter, nextId>>

\* l.569-579 and l.381-401
addParticipants == \E participantNames \in NameLists : AddNames(participantNames)

\* l.403-406, called by a form with a record naming participants only
\* (l.860, l.909, l.1005); the id is a fresh one (l.404, l.703).
addExpense ==
    /\ groupName # ""
    /\ nextId < MaxIds
    /\ \E e \in GroupTxSet :
          /\ NamesOf(e) \subseteq Range(participants)
          /\ SetExpenses(expenses \o <<Saved(e, nextId + 1, e.date)>>)
    /\ nextId' = nextId + 1
    /\ UNCHANGED <<engine, form>>

\* l.408-411, called by the edit form (l.1101: expenses only) with a record
\* that keeps the id (l.703).
updateExpense ==
    /\ groupName # ""
    /\ \E x \in DOMAIN expenses, e \in GroupTxSet :
          /\ ~expenses[x].isPayment
          /\ ~e.isPayment
          /\ Kept(expenses[x], historyFilter, memberFilter)
          /\ NamesOf(e) \subseteq Range(participants)
          /\ LET updatedExpense == Saved(e, expenses[x].id, e.date)
             IN  SetExpenses([y \in DOMAIN expenses |->
                                IF expenses[y].id = updatedExpense.id
                                THEN updatedExpense ELSE expenses[y]])
    /\ UNCHANGED <<engine, nextId, form>>

\* l.413-416, called from an entry of the History list (l.1104).
removeExpense ==
    /\ groupName # ""
    /\ \E x \in DOMAIN expenses :
          /\ Kept(expenses[x], historyFilter, memberFilter)
          /\ LET Other(e) == e.id # expenses[x].id
             IN  SetExpenses(SelectSeq(expenses, Other))
    /\ UNCHANGED <<engine, nextId, form>>

\* l.1074, l.1084-1088: a change of the sort order or of a filter renders
\* ExpenseList again; GroupView keeps its memoised debts.
SetView(order, hFilter, mFilter) ==
    /\ groupName # ""
    /\ sortOrder' = order
    /\ historyFilter' = hFilter
    /\ memberFilter' = mFilter
    /\ expenses' = AfterDisplay(expenses, order, hFilter, mFilter)
    /\ UNCHANGED <<engine, groupName, participants, memoDebts, nextId, form>>

setSortOrder ==
    SetView(IF sortOrder = "desc" THEN "asc" ELSE "desc",
            historyFilter, memberFilter)

setHistoryFilter ==
    \E f \in {"all", "payments"} \ {historyFilter} :
        SetView(sortOrder, f, memberFilter)

setMemberFilter ==
    \E m \in ({"all"} \cup (Range(participants) \cap {"Bob"}))
               \ {memberFilter} :
        SetView(sortOrder, historyFilter, m)

\* l.1593-1595: back to GroupSetup; GroupView and its state are gone.
resetApp ==
    /\ groupName # ""
    /\ Mount("", <<>>, <<>>)
    /\ form' = <<>>
    /\ UNCHANGED <<engine, nextId>>

\* What JSON.parse makes of a file's text: it throws (parses FALSE) or gives
\* null or an object; isArray holds the fields for which Array.isArray is
\* true.
Parsed(ok, null, name, arrays, parts, exps) ==
    [parses |-> ok, isNull |-> null, name |-> name, isArray |-> arrays,
     participants |-> parts, expenses |-> exps]

ExportedExpenses ==
    <<Saved(ValuesExpense("amount", Dec(1, 10), "Alice",
                          <<Entry("Bob", Dec(1, 10))>>), 101, 1),
      Saved(Payment(Dec(50, 1), "Bob", "Alice"), 102, 2)>>

FileTexts ==
    {Parsed(FALSE, FALSE, "", {}, <<>>, <<>>),
     Parsed(TRUE, TRUE, "", {}, <<>>, <<>>),
     Parsed(TRUE, FALSE, "", {"participants", "expenses"},
            <<"Alice", "Bob">>, ExportedExpenses),
     Parsed(TRUE, FALSE, "Trip", {"expenses"}, <<>>, ExportedExpenses),
     Parsed(TRUE, FALSE, "Trip", {"participants"}, <<"Alice", "Bob">>, <<>>),
     Parsed(TRUE, FALSE, "Trip", {"participants", "expenses"},
            <<"Alice", "Bob">>, ExportedExpenses)}

Files == [type : {"application/json", "text/plain"}, text : FileTexts]

\* Loads that does not look at the name.
Loads_Unnamed(file) ==
    /\ file.type = "application/json"
    /\ file.text.parses
    /\ ~file.text.isNull
    /\ "participants" \in file.text.isArray
    /\ "expenses" \in file.text.isArray

\* l.275-287: the file reaches setGroupData.  Reading .name of null raises
\* a TypeError that the catch clause swallows like a parse error.
Loads(file) ==
    /\ file.type = "application/json"
    /\ file.text.parses
    /\ ~file.text.isNull
    /\ file.text.name # ""
    /\ "participants" \in file.text.isArray
    /\ "expenses" \in file.text.isArray

\* groupData as App holds it.
groupData ==
    [name |-> groupName, participants |-> participants, expenses |-> expenses]

\* The groupData of App once the upload of the file has been handled.
Uploaded(file) ==
    IF Loads(file)
    THEN [name |-> file.text.name, participants |-> file.text.participants,
          expenses |-> file.text.expenses]
    ELSE groupData

\* l.273-296, from GroupSetup.
handleFileUpload ==
    /\ groupName = ""
    /\ \E file \in Files :
          IF Uploaded(file) # groupData
          THEN /\ Mount(Uploaded(file).name, Uploaded(file).participants,
                        Uploaded(file).expenses)
               /\ form' = FormEffects(NewForm, Uploaded(file).participants)
          ELSE UNCHANGED <<groupName, participants, expenses, memoDebts,
                           sortOrder, historyFilter, memberFilter, form>>
    /\ UNCHANGED <<engine, nextId>>

NextGroup ==
    \/ setGroupName
    \/ handleFileUpload
    \/ addParticipants
    \/ addExpense
    \/ updateExpense
    \/ removeExpense
    \/ setSortOrder
    \/ setHistoryFilter
    \/ setMemberFilter
    \/ resetApp

SpecGroup == InitGroup /\ [][NextGroup]_vars

\* C21: whatever was done to the group, the debt list GroupView shows is
\* calculateBalances of the current expenses and the current participants.
C21_ShownIsRecomputed ==
    groupName # "" => memoDebts = Balances(expenses, participants)

\* A step that changes the sort order or a filter of the History list keeps
\* the stored array.
C30_Step ==
    (/\ groupName # ""
     /\ groupName' = groupName
     /\ <<sortOrder, historyFilter, memberFilter>>' #
           <<sortOrder, historyFilter, memberFilter>>)
    => expenses' = expenses

\* C30: displaying the History list under another sort order or filter
\* leaves the stored transaction array as it is, order included.
C30_DisplayKeepsArray == [][C30_Step]_vars

\* No two participants have names that are equal ignoring case.
DistinctIgnoringCase(parts) ==
    \A x, y \in DOMAIN parts :
        x # y => toLowerCase(parts[x]) # toLowerCase(parts[y])

\* A step of addParticipants that changes the roster appends to it.
C23_Step ==
    (groupName # "" /\ groupName' = groupName /\ participants' # participants)
    => /\ Len(participants') > Len(participants)
       /\ SubSeq(participants', 1, Len(participants)) = participants

\* C23: after any sequence of addParticipants calls no two participants
\* have names that are equal ignoring case; a call only appends the names
\* that are new, so a name rejected as a duplicate (of a participant or of
\* an earlier name of the same call) leaves the roster as it was.
C23_UniqueNames ==
    [][C23_Step]_vars /\ [](groupName # "" => DistinctIgnoringCase(participants))

\* A group of two people to which a call with a known name in another case
\* could add nothing.
C23_Witness ==
    /\ groupName # ""
    /\ Len(participants) = 2
    /\ \E x \in DOMAIN participants : participants[x] = "alice"
    /\ nextId = 0
    /\ expenses = <<>>

\* Whether the uploaded file is JSON that parses to an object with a
\* non-empty name and arrays for participants and expenses.
WellShaped(file) ==
    /\ file.type = "application/json"
    /\ file.text.parses
    /\ ~file.text.isNull
    /\ file.text.name # ""
    /\ file.text.isArray = {"participants", "expenses"}

\* C25: an upload replaces the group state with the file's content only
\* when the parsed object has a non-empty name and participants and
\* expenses are arrays; a file that is not JSON, does not parse or lacks
\* that shape leaves the group state unchanged.
C25_ImportShape ==
    \A file \in Files :
        /\ WellShaped(file)
           => Uploaded(file) =
                 [name |-> file.text.name,
                  participants |-> file.text.participants,
                  expenses |-> file.text.expenses]
        /\ ~WellShaped(file) => Uploaded(file) = groupData

\* A well-shaped file has been loaded from GroupSetup.
C25_Witness ==
    /\ groupName = "Trip"
    /\ participants = <<"Alice", "Bob">>
    /\ Len(expenses) = 2
    /\ \A x \in DOMAIN expenses : expenses[x].id > MaxIds
    /\ nextId = 0

\* ------------------------------------------------- the forms of GroupView
\* The text of a number input: empty, or a decimal numeral n/d.
NoText == <<>>
Text(n, d) == <<n, d>>

\* Number.prototype.toString: a numeral that denotes the Number exactly.
AsText(number) == Text(number, Scale)

\* parseFloat of a non-empty numeral: the nearest Number.
NumberOf(text) == Dec(text[1], text[2])

\* l.635, l.639-644: parseFloat(text) || 0
OrZero(text) == IF text = NoText THEN 0 ELSE NumberOf(text)

\* { ...prev, [name]: value } on an object given as its entries: a known
\* key keeps its place, a new one goes last.
SetEntry(entries, name, value) ==
    IF \E x \in DOMAIN entries : entries[x].name = name
    THEN [x \in DOMAIN entries |->
            IF entries[x].name = name THEN Entry(name, value) ELSE entries[x]]
    ELSE Append(entries, Entry(name, value))

\* l.677-679
handleSplitValueChange(f, name, value) ==
    [f EXCEPT !.splitValues = SetEntry(@, name, value)]

\* l.681-683
handleItemizedValueChange(f, name, value) ==
    [f EXCEPT !.itemized = SetEntry(@, name, value)]

\* l.685-689
handleSplitBetweenChange(f, name) ==
    LET Other(p) == p # name
    IN  [f EXCEPT !.splitBetween =
            IF name \in Range(@) THEN SelectSeq(@, Other) ELSE Append(@, name)]

\* l.635: the reduce over Object.values(itemized)
RECURSIVE SumTexts(_, _)
SumTexts(entries, sum) ==
    IF entries = <<>> THEN sum
    ELSE SumTexts(Tail(entries), FAdd(sum, OrZero(Head(entries).value)))

\* l.633-636
itemizedBaseAmount(f) ==
    IF f.splitMethod # "item" THEN 0 ELSE SumTexts(f.itemized, 0)

\* l.638-645; tax, serviceCharge and otherCharges are left empty.
totalAmount(f, baseAmount, tips) ==
    LET base == IF f.splitMethod = "item" THEN itemizedBaseAmount(f)
                ELSE OrZero(baseAmount)
    IN  FAdd(FAdd(FAdd(FAdd(base, OrZero(tips)), OrZero(NoText)),
                  OrZero(NoText)), OrZero(NoText))

\* Relevant that keeps the values of the people who are not selected too.
RECURSIVE Relevant_Unselected(_, _)
Relevant_Unselected(entries, splitBetween) ==
    IF entries = <<>> THEN <<>>
    ELSE LET e == Head(entries)
             rest == Relevant_Unselected(Tail(entries), splitBetween)
         IN  IF e.value # NoText /\ NumberOf(e.value) > 0
             THEN <<Entry(e.name, NumberOf(e.value))>> \o rest
             ELSE rest

\* l.718-720, l.735-737: the entries of the selected people with a value
\* above 0, parsed.
RECURSIVE Relevant(_, _)
Relevant(entries, splitBetween) ==
    IF entries = <<>> THEN <<>>
    ELSE LET e == Head(entries)
             rest == Relevant(Tail(entries), splitBetween)
         IN  IF /\ e.name \in Range(splitBetween)
                /\ e.value # NoText
                /\ NumberOf(e.value) > 0
             THEN <<Entry(e.name, NumberOf(e.value))>> \o rest
             ELSE rest

\* Unreconciled that only looks at literal amounts.
Unreconciled_AmountOnly(method, totalSplitValue, total) ==
    method = "amount" /\ Abs(FSub(totalSplitValue, total)) > Threshold

\* l.746, l.750: the two tests that refuse a split by amount or percentage.
Unreconciled(method, totalSplitValue, total) ==
    \/ method = "amount" /\ Abs(FSub(totalSplitValue, total)) > Threshold
    \/ /\ method = "percentage"
       /\ Abs(FSub(totalSplitValue, FromInt(100))) > Threshold

Refused == [accepted |-> FALSE, data |-> <<>>]
Accepted(e) == [accepted |-> TRUE, data |-> e]

\* l.702-716: the amounts expenseData carries besides the split.
WithCharges(e, base, tips) ==
    [g \in DOMAIN e \cup {"baseAmount", "tips"} |->
        IF g = "baseAmount" THEN base ELSE IF g = "tips" THEN tips ELSE e[g]]

\* l.691-758: AddExpenseForm.handleSubmit up to onAddExpense: refused, or
\* accepted with expenseData (without its id and date).
expenseData(f, paidBy, description, baseAmount, tips) ==
    LET finalBaseAmount == IF f.splitMethod = "item"
                           THEN itemizedBaseAmount(f)
                           ELSE OrZero(baseAmount)
        total == totalAmount(f, baseAmount, tips)
        relevantItems == Relevant(f.itemized, f.splitBetween)
        relevantSplitValues == Relevant(f.splitValues, f.splitBetween)
        totalSplitValue == SumValues(relevantSplitValues, 0)
    IN  IF \/ description = ""
           \/ finalBaseAmount = 0
           \/ paidBy = ""
           \/ total <= 0
        THEN Refused
        ELSE CASE f.splitMethod = "item" ->
                    IF relevantItems = <<>> THEN Refused
                    ELSE Accepted(WithCharges(
                            ItemExpense(total, paidBy, relevantItems),
                            finalBaseAmount, OrZero(tips)))
               [] f.splitMethod = "evenly" ->
                    IF f.splitBetween = <<>> THEN Refused
                    ELSE Accepted(WithCharges(
                            EvenlyExpense(total, paidBy, f.splitBetween),
                            finalBaseAmount, OrZero(tips)))
               [] OTHER ->
                    IF relevantSplitValues = <<>> THEN Refused
                    ELSE IF Unreconciled(f.splitMethod, totalSplitValue, total)
                    THEN Refused
                    ELSE Accepted(WithCharges(
                            ValuesExpense(f.splitMethod, total, paidBy,
                                          relevantSplitValues),
                            finalBaseAmount, OrZero(tips)))

RECURSIVE AsTexts(_)
AsTexts(entries) ==
    IF entries = <<>> THEN <<>>
    ELSE <<Entry(Head(entries).name, AsText(Head(entries).value))>>
         \o AsTexts(Tail(entries))

\* l.648-668: the state of the form the edit dialog opens on a stored
\* expense.
EditForm(e) ==
    [splitMethod |-> e.splitMethod,
     itemized |-> IF "itemized" \in e.has THEN AsTexts(e.itemized) ELSE <<>>,
     splitBetween |-> IF e.splitMethod = "evenly" THEN e.splitBetween
                      ELSE IF "splitValues" \in e.has
                      THEN EntryNameSeq(e.splitValues)
                      ELSE IF "itemized" \in e.has
                      THEN EntryNameSeq(e.itemized)
                      ELSE <<>>,
     splitValues |-> IF e.splitMethod # "evenly" /\ "splitValues" \in e.has
                     THEN AsTexts(e.splitValues) ELSE <<>>]

\* What the user types into the forms.
Descriptions == {"", "Dinner"}
BaseTexts == {NoText, Text(255, 1000)}
TipTexts == {NoText}
ValueTexts(name) ==
    IF name = "Alice" THEN {Text(100, 1)} ELSE {Text(25, 100)}
ItemTexts == {Text(25, 100)}
PaymentTexts == {NoText, Text(50, 1)}
SplitMethods == {"evenly", "amount", "percentage", "item"}

\* l.574: the lists of names submitted to a group that has the forms open.
FormNameLists == {<<"Alice">>, <<"Alice", "Bob">>}

\* l.621: the date a form proposes, today.
Today == 1

\* Most transactions stored at a time while the forms are followed.
MaxSaved == 1

\* l.806: the expense form is there once the group has a participant.
ExpenseFormShown == groupName # "" /\ Len(participants) > 0

\* l.569-579
AddParticipantForm ==
    \E participantNames \in FormNameLists : AddNames(participantNames)

FormOnly ==
    UNCHANGED <<engine, groupName, participants, expenses, memoDebts,
                sortOrder, historyFilter, memberFilter, nextId>>

\* l.884
setSplitMethod ==
    /\ ExpenseFormShown
    /\ \E method \in SplitMethods \ {form.splitMethod} :
          form' = [form EXCEPT !.splitMethod = method]
    /\ FormOnly

\* l.912: a checkbox per participant.
ToggleSplitBetween ==
    /\ ExpenseFormShown
    /\ \E name \in Range(participants) :
          form' = handleSplitBetweenChange(form, name)
    /\ FormOnly

\* l.915-933: a value input for every selected person, writing to itemized
\* under 'item' and to splitValues under 'amount' and 'percentage'.
TypeValue ==
    /\ ExpenseFormShown
    /\ \E name \in Range(form.splitBetween) :
          \/ /\ form.splitMethod = "item"
             /\ \E value \in ItemTexts :
                   form' = handleItemizedValueChange(form, name, value)
          \/ /\ form.splitMethod \in {"amount", "percentage"}
             /\ \E value \in ValueTexts(name) :
                   form' = handleSplitValueChange(form, name, value)
    /\ form' # form
    /\ FormOnly

\* l.691-773 in the form that adds.  The payer select (l.859-861) is left
\* on the participant the effect gave it (l.671); description, amount and
\* tips are read by the submission only, so their content is drawn here.
\* An accepted submission goes to addExpense (l.403-406) and clears the
\* item costs.
handleSubmit ==
    /\ ExpenseFormShown
    /\ \E description \in Descriptions, baseAmount \in BaseTexts,
          tips \in TipTexts :
          LET paidBy == participants[1]
              result ==
                 expenseData(form, paidBy, description, baseAmount, tips)
          IN  IF result.accepted
              THEN /\ nextId < MaxIds
                   /\ Len(expenses) < MaxSaved
                   /\ SetExpenses(expenses \o
                         <<Saved(result.data, nextId + 1, Today)>>)
                   /\ nextId' = nextId + 1
                   /\ form' = [form EXCEPT !.itemized = <<>>]
              ELSE UNCHANGED <<groupName, participants, expenses, memoDebts,
                               sortOrder, historyFilter, memberFilter,
                               nextId, form>>
    /\ UNCHANGED engine

\* What is done in the edit dialog before it is submitted.
EditSteps ==
    {<<"none", "">>}
    \cup {<<"toggle", name>> : name \in Range(participants)}
    \cup {<<"method", method>> : method \in SplitMethods}

EditStep(f, step) ==
    CASE step[1] = "toggle" -> handleSplitBetweenChange(f, step[2])
      [] step[1] = "method" -> [f EXCEPT !.splitMethod = step[2]]
      [] OTHER -> f

\* l.1101, l.461-470, l.648-668, l.691-773 with isEditMode: the dialog opens
\* on a stored expense, the user changes at most one thing and submits; an
\* accepted submission goes to updateExpense (l.408-411) under the old id.
EditExpense ==
    /\ ExpenseFormShown
    /\ \E x \in DOMAIN expenses, step \in EditSteps :
          /\ ~expenses[x].isPayment
          /\ LET expenseToEdit == expenses[x]
                 result == expenseData(
                              EditStep(EditForm(expenseToEdit), step),
                              expenseToEdit.paidBy,
                              "Dinner", AsText(expenseToEdit.baseAmount),
                              AsText(expenseToEdit.tips))
                 updatedExpense ==
                     Saved(result.data, expenseToEdit.id, expenseToEdit.date)
             IN  IF result.accepted
                 THEN SetExpenses([y \in DOMAIN expenses |->
                                     IF expenses[y].id = updatedExpense.id
                                     THEN updatedExpense ELSE expenses[y]])
                 ELSE UNCHANGED <<groupName, participants, expenses,
                                  memoDebts, sortOrder, historyFilter,
                                  memberFilter>>
    /\ UNCHANGED <<engine, nextId, form>>

\* l.995: the payment form is there once the group has two participants.
PaymentFormShown == groupName # "" /\ Len(participants) >= 2

\* RecordPayment that accepts a payment to oneself.
RecordPayment_ToSelf(from, to, amount) ==
    IF from = "" \/ to = "" \/ amount = NoText
    THEN Refused
    ELSE Accepted(Payment(NumberOf(amount), from, to))

\* l.970-988: RecordPaymentForm.handleSubmit up to onAddExpense.
RecordPayment(from, to, amount) ==
    IF from = "" \/ to = "" \/ amount = NoText \/ from = to
    THEN Refused
    ELSE Accepted(Payment(NumberOf(amount), from, to))

\* l.961-993.  The two ends are the values of selects over the
\* participants that an effect sets to the first two of them (l.961-968,
\* l.1004-1016); ends and amount are read by the submission only, so
\* their content is drawn here.
SubmitPayment ==
    /\ PaymentFormShown
    /\ \E from \in Range(participants), to \in Range(participants),
          amount \in PaymentTexts :
          LET result == RecordPayment(from, to, amount)
          IN  IF result.accepted
              THEN /\ nextId < MaxIds
                   /\ Len(expenses) < MaxSaved
                   /\ SetExpenses(expenses \o
                         <<Saved(result.data, nextId + 1, Today)>>)
                   /\ nextId' = nextId + 1
              ELSE UNCHANGED <<groupName, participants, expenses, memoDebts,
                               sortOrder, historyFilter, memberFilter,
                               nextId>>
    /\ UNCHANGED <<engine, form>>

NextForm ==
    \/ setGroupName
    \/ AddParticipantForm
    \/ setSplitMethod
    \/ ToggleSplitBetween
    \/ TypeValue
    \/ handleSubmit
    \/ EditExpense
    \/ SubmitPayment
    \/ removeExpense

SpecForm == InitGroup /\ [][NextForm]_vars

\* The sum of the values of a stored splitValues object, taken in key
\* order.
StoredSum(e) == SumValues(e.splitValues, 0)

\* The reconciliation condition of a stored expense.
Reconciled(e) ==
    /\ (~e.isPayment /\ e.splitMethod = "amount")
       => Abs(FSub(StoredSum(e), e.amount)) <= Threshold
    /\ (~e.isPayment /\ e.splitMethod = "percentage")
       => Abs(FSub(StoredSum(e), FromInt(100))) <= Threshold

\* C22: the expense form stores an 'amount' expense only when its split
\* values sum to the total amount within 0.01 and a 'percentage' expense
\* only when its percentages sum to 100 within 0.01, for a new expense and
\* for an edit alike; a submission that fails the test leaves the list
\* unchanged, so every stored expense meets its condition.
C22_FormReconciles ==
    /\ \A x \in DOMAIN expenses : Reconciled(expenses[x])
    /\ groupName # "" /\ Len(participants) > 0
       => \A description \in Descriptions, baseAmount \in BaseTexts :
             LET result == expenseData(form, participants[1], description,
                                       baseAmount, NoText)
                 relevant == Relevant(form.splitValues, form.splitBetween)
                 sum == SumValues(relevant, 0)
                 total == totalAmount(form, baseAmount, NoText)
             IN  /\ (/\ form.splitMethod = "amount"
                     /\ Abs(FSub(sum, total)) > Threshold)
                    => ~result.accepted
                 /\ (/\ form.splitMethod = "percentage"
                     /\ Abs(FSub(sum, FromInt(100))) > Threshold)
                    => ~result.accepted

\* An 'amount' expense whose single value differs from the total by less
\* than 0.01 has been stored, while the form holds percentages that do not
\* sum to 100.
C22_Witness ==
    /\ Len(expenses) = 1
    /\ expenses[1].splitMethod = "amount"
    /\ StoredSum(expenses[1]) # expenses[1].amount
    /\ form.splitMethod = "percentage"
    /\ Relevant(form.splitValues, form.splitBetween) # <<>>
    /\ SumValues(Relevant(form.splitValues, form.splitBetween), 0)
          # FromInt(100)

\* C24: for every itemized expense saved through the expense form the
\* stored baseAmount equals the sum of the stored itemized values, so that
\* amount minus that sum is the aggregate of the charges, also when an item
\* cost was entered for a participant who was deselected before saving.
C24_BaseIsItemSum ==
    \A x \in DOMAIN expenses :
        (~expenses[x].isPayment /\ expenses[x].splitMethod = "item")
        => /\ expenses[x].baseAmount = SumValues(expenses[x].itemized, 0)
           /\ FSub(expenses[x].amount, SumValues(expenses[x].itemized, 0))
                 = expenses[x].tips

\* C29: starting from a newly created group, whatever is done with the
\* participant form, the expense form, the edit dialog, the payment form
\* and the remove buttons, every name a stored transaction refers to is the
\* name of a current participant and every stored payment has one
\* recipient, who is not its sender; calculateBalances therefore meets no
\* unknown name.
C29_StoredNamesKnown ==
    /\ \A x \in DOMAIN expenses :
          /\ NamesOf(expenses[x]) \subseteq Range(participants)
          /\ expenses[x].isPayment
             => /\ Len(expenses[x].splitBetween) = 1
                /\ expenses[x].splitBetween[1] # expenses[x].paidBy
    /\ ~calculateBalances(expenses, participants).threw

\* A payment is stored after an earlier transaction was removed, in a
\* group that has both participants.
C29_Witness ==
    /\ Len(participants) = 2
    /\ Len(expenses) = 1
    /\ expenses[1].isPayment
    /\ nextId = 2

\* What transaction e adds to the credit of participant p: the shares of
\* the others in an expense p paid, less p's share in an expense somebody
\* else paid, plus a payment p sent, less a payment p received.  The shares
\* are the ones the function computes; the sums here are exact.
RECURSIVE SumOver(_, _)
SumOver(shares, names) ==
    IF names = {} THEN 0
    ELSE LET n == CHOOSE n \in names : TRUE
         IN  shares[n] + SumOver(shares, names \ {n})

CreditFrom(e, p) ==
    IF Skipped(e) THEN 0
    ELSE IF e.isPayment
    THEN (IF e.paidBy = p THEN e.amount ELSE 0)
         - (IF e.splitBetween[1] = p THEN e.amount ELSE 0)
    ELSE IF e.paidBy = p
    THEN SumOver(Shares(e), DOMAIN Shares(e) \ {p})
    ELSE IF p \in DOMAIN Shares(e) THEN -Shares(e)[p] ELSE 0

RECURSIVE Credit(_, _)
Credit(exps, p) ==
    IF exps = <<>> THEN 0
    ELSE CreditFrom(Head(exps), p) + Credit(Tail(exps), p)

\* What the debt list gives participant p: the amounts owed to p less the
\* amounts p owes, summed exactly.
RECURSIVE DebtBalance(_, _)
DebtBalance(debts, p) ==
    IF debts = <<>> THEN 0
    ELSE (IF Head(debts).to = p THEN Head(debts).amount ELSE 0)
         - (IF Head(debts).from = p THEN Head(debts).amount ELSE 0)
         + DebtBalance(Tail(debts), p)

\* The call has returned for a roster of distinct names and transactions
\* that name roster members only, and no pair has a net balance that the
\* threshold keeps out of the list.
NothingSuppressed ==
    /\ Returned
    /\ Distinct(participants)
    /\ \A x \in DOMAIN expenses :
          NamesOf(expenses[x]) \subseteq Range(participants)
    /\ \A ij \in IndexPairs :
          LedgerNet(ij) = 0 \/ Abs(LedgerNet(ij)) > Threshold

\* The number of roundings behind the balance of p: one for every cell of
\* p's row or column a transaction adds to, and one for the net of every
\* pair p is in.
RECURSIVE Roundings(_, _)
Roundings(exps, p) ==
    IF exps = <<>> THEN 0
    ELSE LET e == Head(exps)
         IN  (IF Skipped(e) THEN 0
              ELSE IF e.isPayment
              THEN (IF p \in {e.paidBy, e.splitBetween[1]} THEN 1 ELSE 0)
              ELSE IF e.paidBy = p
              THEN Cardinality(DOMAIN Shares(e) \ {p})
              ELSE IF p \in DOMAIN Shares(e) THEN 1 ELSE 0)
             + Roundings(Tail(exps), p)

\* The sum of the amounts of the transactions, which no cell of the ledger
\* exceeds in magnitude.
RECURSIVE Volume(_)
Volume(exps) ==
    IF exps = <<>> THEN 0 ELSE Abs(Head(exps).amount) + Volume(Tail(exps))

Touches(e, a, b) ==
    IF e.isPayment
    THEN "splitBetween" \in e.has /\ Len(e.splitBetween) > 0
         /\ <<e.paidBy, e.splitBetween[1]>> \in {<<a, b>>, <<b, a>>}
    ELSE \/ e.paidBy = a /\ b \in DOMAIN Shares(e)
         \/ e.paidBy = b /\ a \in DOMAIN Shares(e)

\* The records of a debt list that are between a and b.
PairEntry(debts, a, b) ==
    LET Between(d) == Ends(d) = {a, b}
    IN  SelectSeq(debts, Between)

\* C27: pairwise locality.  Whenever the call returns, what it emits between
\* two participants A and B is what the call on the transactions between A
\* and B alone emits: every other transaction (one between C and D, or
\* between A and C) can be added, removed or changed without changing the
\* entry of A and B, and a chain A owes B, B owes C is not turned into
\* A owes C.
C27_PairwiseLocality ==
    Returned
    => \A a, b \in Range(participants) :
          a # b
          => LET Theirs(e) == Touches(e, a, b)
             IN  PairEntry(finalDebts, a, b) =
                    PairEntry(calculateBalances(SelectSeq(expenses, Theirs),
                                                participants).debts, a, b)

\* A call on three transactions has returned a chain, one person owing a
\* second who owes a third, with nothing between the first and the third.
C27_Witness ==
    /\ Returned
    /\ Distinct(participants)
    /\ Len(participants) = 3
    /\ Len(expenses) = 3
    /\ \E x, y \in DOMAIN finalDebts :
          /\ finalDebts[x].to = finalDebts[y].from
          /\ finalDebts[x].from # finalDebts[y].to
          /\ PairEntry(finalDebts, finalDebts[x].from, finalDebts[y].to) = <<>>

\* ---------------------------------------------------------------- DebtDetail
\* obj[name] is truthy: the key is there and its value is not 0.
Truthy(entries, name) ==
    \E x \in DOMAIN entries : entries[x].name = name /\ entries[x].value # 0

\* l.1238-1253 and l.1263-1278: the share of one of the two people in an
\* expense the other one paid, as DebtDetail computes it.
DetailShare(exp, name) ==
    IF exp.splitMethod = "evenly" /\ name \in Range(exp.splitBetween)
    THEN FDiv(exp.amount, FromInt(Len(exp.splitBetween)))
    ELSE IF "splitValues" \in exp.has /\ Truthy(exp.splitValues, name)
    THEN IF exp.splitMethod = "amount"
         THEN ValueOf(exp.splitValues, name)
         ELSE IF exp.splitMethod = "percentage"
         THEN FMul(exp.amount,
                   FDiv(ValueOf(exp.splitValues, name), FromInt(100)))
         ELSE 0
    ELSE IF /\ exp.splitMethod = "item"
            /\ "itemized" \in exp.has
            /\ Truthy(exp.itemized, name)
    THEN LET baseTotal == SumValues(exp.itemized, 0)
             extras == FSub(exp.amount, baseTotal)
             proportion == IF baseTotal > 0
                           THEN FDiv(ValueOf(exp.itemized, name), baseTotal)
                           ELSE 0
         IN  FAdd(ValueOf(exp.itemized, name), FMul(extras, proportion))
    ELSE 0

\* l.1235-1291: what one transaction does to netOwed.
DetailStep(debt, exp, netOwed) ==
    LET case1 == IF /\ ~exp.isPayment
                    /\ exp.paidBy = debt.to
                    /\ DetailShare(exp, debt.from) > 0
                 THEN FAdd(netOwed, DetailShare(exp, debt.from))
                 ELSE netOwed
        case2 == IF /\ ~exp.isPayment
                    /\ exp.paidBy = debt.from
                    /\ DetailShare(exp, debt.to) > 0
                 THEN FSub(case1, DetailShare(exp, debt.to))
                 ELSE case1
        sent == IF /\ exp.isPayment
                   /\ exp.paidBy = debt.from
                   /\ exp.splitBetween[1] = debt.to
                THEN FSub(case2, exp.amount)
                ELSE case2
    IN  IF /\ exp.isPayment
           /\ exp.paidBy = debt.to
           /\ exp.splitBetween[1] = debt.from
        THEN FAdd(sent, exp.amount)
        ELSE sent

\* l.1232-1293: DebtDetail's breakdown.netOwed, the 'Net Total Owed'.
RECURSIVE DetailFrom(_, _, _)
DetailFrom(debt, exps, netOwed) ==
    IF exps = <<>> THEN netOwed
    ELSE DetailFrom(debt, Tail(exps), DetailStep(debt, Head(exps), netOwed))

netOwed(debt, exps) == DetailFrom(debt, exps, 0)

\* The transaction is one the forms store: a positive amount, positive
\* split values, a payment to somebody else.
FormBuilt(e) ==
    /\ e.amount > 0
    /\ e.isPayment => Len(e.splitBetween) = 1 /\ e.splitBetween[1] # e.paidBy
    /\ (~e.isPayment /\ e.splitMethod = "evenly") => e.splitBetween # <<>>
    /\ \A x \in DOMAIN e.splitValues : e.splitValues[x].value > 0
    /\ \A x \in DOMAIN e.itemized : e.itemized[x].value > 0

\* The call has returned for a roster of distinct names and a list of
\* transactions the forms store, naming roster members only.
FormBuiltReturned ==
    /\ Returned
    /\ Distinct(participants)
    /\ \A x \in DOMAIN expenses :
          /\ FormBuilt(expenses[x])
          /\ NamesOf(expenses[x]) \subseteq Range(participants)

\* C28: for every debt calculateBalances emits from a list built through
\* the forms, the 'Net Total Owed' DebtDetail computes for the debt from
\* the same list equals the amount of the debt.
C28_NetTotalIsDebt ==
    FormBuiltReturned
    => \A x \in DOMAIN finalDebts :
          netOwed(finalDebts[x], expenses) = finalDebts[x].amount

====
